---- MODULE Spec2Model ----
(***************************************************************************)
(* BottomTabView (src/unnamed/part_000): the view of the bottom tab        *)
(* navigator.  The model follows the component's hook state (loaded,       *)
(* previousRouteKeyRef, tabAnims, tabBarHeight), its props (state,         *)
(* descriptors), the render function and the animation effect.             *)
(*                                                                         *)
(* Numbers.  Animated progress values are fixed-point integers: one tick   *)
(* is EPSILON / 2, so that a progress strictly between 1 - EPSILON and 1   *)
(* is representable.  Activity states are fixed-point with denominator     *)
(* EPSILON (Act(n) is the integer n), so that the linear segment of the    *)
(* interpolation between 1 - EPSILON and 1 is exact.                       *)
(* state.index is zero-based as in the source; state.routes is a TLA+      *)
(* sequence, so the route at index i is state.routes[i + 1].               *)
(* An option that is undefined in JavaScript is a field that is absent     *)
(* from the options record.                                                *)
(***************************************************************************)
EXTENDS Integers, Sequences, FiniteSets, TLC

\* Number of tabs of the navigator.
NumRoutes == 3

\* The tabs of the example navigator, in order.
RouteNames == <<"TabStack", "TabChat", "TabContacts", "TabAlbums">>

\* EPSILON = 1e-5, in progress ticks (one tick is EPSILON / 2).
EPSILON == 2

\* The progress value 1.0 in ticks: 1 / 1e-5 = 100000 EPSILONs.
One == 100000 * EPSILON

\* The progress value 0.5 in ticks.
Half == One \div 2

STATE_INACTIVE == 0

STATE_TRANSITIONING_OR_BELOW_TOP == 1

STATE_ON_TOP == 2

\* The activity state n as a fixed-point number with denominator EPSILON.
Act(n) == n * EPSILON

\* const { f = d } = o
Get(o, f, d) == IF f \in DOMAIN o THEN o[f] ELSE d

\* Truthiness of o.f for the string- and object-valued options.
Has(o, f) == f \in DOMAIN o

NoOptions == [f \in {} |-> TRUE]

NoneSpec == [animation |-> "timing", config |-> "duration: 0"]

FadeSpec == [animation |-> "timing", config |-> "FadeTransition"]

ShiftSpec == [animation |-> "timing", config |-> "ShiftTransition"]

CustomSpec == [animation |-> "timing", config |-> "custom"]

NAMED_TRANSITIONS_PRESETS ==
  [fade  |-> [sceneStyleInterpolator |-> "forFade", transitionSpec |-> FadeSpec],
   shift |-> [sceneStyleInterpolator |-> "forShift", transitionSpec |-> ShiftSpec],
   none  |-> [transitionSpec |-> NoneSpec]]

hasAnimation(options) ==
  IF Has(options, "animation")
  THEN options.animation # "none"
  ELSE ~Has(options, "transitionSpec")

VARIABLES state, descriptors, loaded, previousRouteKeyRef, tabAnims, running,
          tabBarHeight, pc

vars == <<state, descriptors, loaded, previousRouteKeyRef, tabAnims, running,
          tabBarHeight, pc>>

Indices == 0 .. NumRoutes - 1

RouteAt(i) == state.routes[i + 1]

RouteKeys == {RouteNames[i] : i \in 1 .. NumRoutes}

focusedRouteKey == RouteAt(state.index).key

\* loaded is only ever tested with includes and extended by one absent key:
\* the list is modelled by the set of its elements.
Includes(list, x) == x \in list


Min(S) == CHOOSE x \in S : \A y \in S : x <= y

\* The segment of inputRange that an input falls in (or is extended from).
findRange(input, inputRange) ==
  LET S == {i \in 2 .. Len(inputRange) - 1 : inputRange[i] >= input}
  IN  IF S = {} THEN Len(inputRange) - 1 ELSE Min(S) - 1

\* Animated.Value.interpolate with extrapolate: 'extend'.
Interpolate(input, inputRange, outputRange) ==
  LET s == findRange(input, inputRange)
  IN  outputRange[s]
        + ((input - inputRange[s]) * (outputRange[s + 1] - outputRange[s]))
            \div (inputRange[s + 1] - inputRange[s])

\* hasTwoStates with every in place of some.
hasTwoStatesEvery ==
  ~(\A n \in 1 .. Len(state.routes) :
      hasAnimation(descriptors[state.routes[n].key].options))

\* If there is no animation, we only have 2 states: visible and invisible
hasTwoStates ==
  ~(\E n \in 1 .. Len(state.routes) :
      hasAnimation(descriptors[state.routes[n].key].options))

tabBarPosition == Get(descriptors[focusedRouteKey].options, "tabBarPosition", "bottom")

Null == [type |-> "null"]

\* activityState with a two-point interpolation, without the knot at 1 - EPSILON.
activityStateLinear(index) ==
  LET route == RouteAt(index)
      isFocused == state.index = index
      animationEnabled == hasAnimation(descriptors[route.key].options)
  IN  IF isFocused
      THEN Act(STATE_ON_TOP)
      ELSE IF animationEnabled
           THEN Interpolate(tabAnims[route.key],
                            <<0, One>>,
                            <<Act(STATE_TRANSITIONING_OR_BELOW_TOP), Act(STATE_INACTIVE)>>)
           ELSE Act(STATE_INACTIVE)

\* The activity state of the screen at an index: a constant, or the current
\* value of the interpolation of the route's progress.
activityState(index) ==
  LET route == RouteAt(index)
      isFocused == state.index = index
      animationEnabled == hasAnimation(descriptors[route.key].options)
  IN  IF isFocused
      THEN Act(STATE_ON_TOP)
      ELSE IF animationEnabled
           THEN Interpolate(tabAnims[route.key],
                            <<0, One - EPSILON, One>>,
                            <<Act(STATE_TRANSITIONING_OR_BELOW_TOP),
                              Act(STATE_TRANSITIONING_OR_BELOW_TOP),
                              Act(STATE_INACTIVE)>>)
           ELSE Act(STATE_INACTIVE)

\* The sceneStyle passed to the screen: the name of the interpolator whose
\* style is applied, "none" when animationEnabled && sceneStyle is falsy.
SceneStyle(index) ==
  LET options == descriptors[RouteAt(index).key].options
      animation == Get(options, "animation", "none")
      preset == NAMED_TRANSITIONS_PRESETS[animation]
      animationEnabled == hasAnimation(options)
  IN  IF ~animationEnabled THEN "none"
      ELSE IF Has(options, "sceneStyleInterpolator") THEN options.sceneStyleInterpolator
      ELSE Get(preset, "sceneStyleInterpolator", "none")

\* RenderScreen with a lazy test that forgets state.preloadedRouteKeys.
RenderScreenNoPreload(index) ==
  LET route == RouteAt(index)
      options == descriptors[route.key].options
      lazy == Get(options, "lazy", TRUE)
      unmountOnBlur == Get(options, "unmountOnBlur", FALSE)
      isFocused == state.index = index
  IN  IF unmountOnBlur /\ ~isFocused THEN Null
      ELSE IF lazy /\ ~Includes(loaded, route.key) /\ ~isFocused
      THEN Null
      ELSE [type |-> "MaybeScreen",
            key |-> route.key,
            zIndex |-> IF isFocused THEN 0 ELSE -1,
            active |-> activityState(index),
            tabBarHeight |-> IF tabBarPosition = "bottom" THEN tabBarHeight ELSE 0,
            focused |-> isFocused,
            sceneStyle |-> SceneStyle(index)]

\* What routes.map renders for the route at an index: Null or a MaybeScreen.
RenderScreen(index) ==
  LET route == RouteAt(index)
      options == descriptors[route.key].options
      lazy == Get(options, "lazy", TRUE)
      unmountOnBlur == Get(options, "unmountOnBlur", FALSE)
      isFocused == state.index = index
  IN  IF unmountOnBlur /\ ~isFocused THEN Null
      ELSE IF /\ lazy
              /\ ~Includes(loaded, route.key)
              /\ ~isFocused
              /\ route.key \notin state.preloadedRouteKeys
      THEN Null
      ELSE [type |-> "MaybeScreen",
            key |-> route.key,
            zIndex |-> IF isFocused THEN 0 ELSE -1,
            active |-> activityState(index),
            tabBarHeight |-> IF tabBarPosition = "bottom" THEN tabBarHeight ELSE 0,
            focused |-> isFocused,
            sceneStyle |-> SceneStyle(index)]

\* RenderChildren with the second test written as === 'bottom'.
RenderChildrenBottomOnly ==
  (IF tabBarPosition = "top" THEN <<"BottomTabBar">> ELSE <<>>)
    \o <<"MaybeScreenContainer">>
    \o (IF tabBarPosition = "bottom" THEN <<"BottomTabBar">> ELSE <<>>)

\* The children of SafeAreaProviderCompat, in order.
RenderChildren ==
  (IF tabBarPosition = "top" THEN <<"BottomTabBar">> ELSE <<>>)
    \o <<"MaybeScreenContainer">>
    \o (IF tabBarPosition # "top" THEN <<"BottomTabBar">> ELSE <<>>)

\* The element returned by BottomTabView for the current props and hook state.
Render ==
  [style |-> IF tabBarPosition = "left" THEN "left"
             ELSE IF tabBarPosition = "right" THEN "right" ELSE "null",
   children |-> RenderChildren,
   hasTwoStates |-> hasTwoStates,
   screens |-> [index \in Indices |-> RenderScreen(index)]]


\* The progress values an animation frame can produce: the rest positions
\* -1, 0 and 1, the midpoint 0.5, the knot 1 - EPSILON and a value inside the
\* last EPSILON.
Grid == {-One, 0, Half, One - EPSILON, One - 1, One}

\* Measured tab bar heights.
TabBarHeights == {49, 83}

\* AnimationSpec with || in place of && in the test for uninvolved screens.
AnimationSpecOr(index, previousRouteKey) ==
  LET route == RouteAt(index)
      options == descriptors[route.key].options
      animation == Get(options, "animation", "none")
      transitionSpec ==
        Get(options, "transitionSpec", NAMED_TRANSITIONS_PRESETS[animation].transitionSpec)
  IN  IF route.key # previousRouteKey \/ route.key # focusedRouteKey
      THEN NAMED_TRANSITIONS_PRESETS.none.transitionSpec
      ELSE transitionSpec

\* The spec animateToIndex picks for the route at an index.  A transitionSpec
\* is a record or absent, so that spec ?? none.transitionSpec is spec.
AnimationSpec(index, previousRouteKey) ==
  LET route == RouteAt(index)
      options == descriptors[route.key].options
      animation == Get(options, "animation", "none")
      transitionSpec ==
        Get(options, "transitionSpec", NAMED_TRANSITIONS_PRESETS[animation].transitionSpec)
  IN  IF route.key # previousRouteKey /\ route.key # focusedRouteKey
      THEN NAMED_TRANSITIONS_PRESETS.none.transitionSpec
      ELSE transitionSpec

\* toValue with the sides exchanged.
toValueMirrored(index) ==
  IF index = state.index THEN 0 ELSE IF index >= state.index THEN -One ELSE One

toValue(index) ==
  IF index = state.index THEN 0 ELSE IF index >= state.index THEN One ELSE -One

\* A timing animation of duration 0 sets the value when it is started.
IsInstant(spec) == spec.animation = "timing" /\ spec.config = "duration: 0"

IndexOf(key) == CHOOSE i \in Indices : RouteAt(i).key = key

\* The Animated.Value of every route before the first effect: all at 0, or
\* every route at the rest position of its index.
useAnimatedHashMap(index) ==
  {[k \in RouteKeys |-> 0],
   [k \in RouteKeys |->
      LET i == CHOOSE j \in Indices : RouteNames[j + 1] = k
      IN  IF i = index THEN 0 ELSE IF i >= index THEN One ELSE -One]}

\* The component after its first render, the mount effect pending.
InitWith(Options, Heights) ==
  /\ \E index \in Indices :
       /\ state = [index |-> index,
                   routes |-> [n \in 1 .. NumRoutes |-> [key |-> RouteNames[n]]],
                   preloadedRouteKeys |-> {}]
       /\ tabAnims \in useAnimatedHashMap(index)
  /\ descriptors \in [RouteKeys -> [options : Options]]
  /\ loaded = {focusedRouteKey}
  /\ previousRouteKeyRef = focusedRouteKey
  /\ running = [k \in {} |-> NoneSpec]
  /\ tabBarHeight \in Heights
  /\ pc = "effect"

\* navigation: the router focuses another tab.
Navigate(index) ==
  /\ pc = "idle"
  /\ index # state.index
  /\ state' = [state EXCEPT !.index = index]
  /\ pc' = "render"
  /\ UNCHANGED <<descriptors, loaded, previousRouteKeyRef, tabAnims, running, tabBarHeight>>

\* navigation.preload: the router adds a route to preloadedRouteKeys.
Preload(key) ==
  /\ pc = "idle"
  /\ key # focusedRouteKey
  /\ key \notin state.preloadedRouteKeys
  /\ state' = [state EXCEPT !.preloadedRouteKeys = @ \cup {key}]
  /\ pc' = "render"
  /\ UNCHANGED <<descriptors, loaded, previousRouteKeyRef, tabAnims, running, tabBarHeight>>

\* The router drops a route from preloadedRouteKeys.
Unpreload(key) ==
  /\ pc = "idle"
  /\ key \in state.preloadedRouteKeys
  /\ state' = [state EXCEPT !.preloadedRouteKeys = @ \ {key}]
  /\ pc' = "render"
  /\ UNCHANGED <<descriptors, loaded, previousRouteKeyRef, tabAnims, running, tabBarHeight>>

\* The navigator passes new options for a route (screenOptions, setOptions).
SetOptions(key, options) ==
  /\ pc = "idle"
  /\ options # descriptors[key].options
  /\ descriptors' = [descriptors EXCEPT ![key].options = options]
  /\ pc' = "render"
  /\ UNCHANGED <<state, loaded, previousRouteKeyRef, tabAnims, running, tabBarHeight>>

\* RenderView with setLoaded([focusedRouteKey]) in place of the append.
RenderViewReset ==
  /\ pc = "render"
  /\ IF ~Includes(loaded, focusedRouteKey)
     THEN /\ loaded' = {focusedRouteKey}
          /\ pc' = "render"
     ELSE /\ pc' = "effect"
          /\ UNCHANGED loaded
  /\ UNCHANGED <<state, descriptors, previousRouteKeyRef, tabAnims, running, tabBarHeight>>

\* The body of BottomTabView up to the effect: a render that calls setLoaded
\* is rendered again, a render that does not is committed.
RenderView ==
  /\ pc = "render"
  /\ IF ~Includes(loaded, focusedRouteKey)
     THEN /\ loaded' = loaded \cup {focusedRouteKey}
          /\ pc' = "render"
     ELSE /\ pc' = "effect"
          /\ UNCHANGED loaded
  /\ UNCHANGED <<state, descriptors, previousRouteKeyRef, tabAnims, running, tabBarHeight>>

\* The effect: animateToIndex starts one animation per route, replacing the
\* animation running on the route's value.
Effect ==
  /\ pc = "effect"
  /\ LET previousRouteKey == previousRouteKeyRef
         Instant == {i \in Indices : IsInstant(AnimationSpec(i, previousRouteKey))}
     IN  /\ previousRouteKeyRef' = focusedRouteKey
         /\ tabAnims' = [k \in RouteKeys |->
                           IF IndexOf(k) \in Instant THEN toValue(IndexOf(k))
                           ELSE tabAnims[k]]
         /\ running' = [k \in {RouteAt(i).key : i \in Indices \ Instant} |->
                          [spec |-> AnimationSpec(IndexOf(k), previousRouteKey),
                           toValue |-> toValue(IndexOf(k))]]
  /\ pc' = "idle"
  /\ UNCHANGED <<state, descriptors, loaded, tabBarHeight>>

\* The values a running animation can move to next.
Frames(from, to) ==
  {v \in Grid : (from < v /\ v <= to) \/ (to <= v /\ v < from)} \cup {to}

\* One frame of a running animation; the animation ends at its toValue.
Tick(key) ==
  /\ key \in DOMAIN running
  /\ \E v \in Frames(tabAnims[key], running[key].toValue) :
       /\ tabAnims' = [tabAnims EXCEPT ![key] = v]
       /\ running' = IF v = running[key].toValue
                     THEN [k \in DOMAIN running \ {key} |-> running[k]]
                     ELSE running
  /\ UNCHANGED <<state, descriptors, loaded, previousRouteKeyRef, tabBarHeight, pc>>

\* BottomTabBarHeightCallbackContext: the tab bar reports its height.
SetTabBarHeight(height) ==
  /\ height # tabBarHeight
  /\ tabBarHeight' = height
  /\ UNCHANGED <<state, descriptors, loaded, previousRouteKeyRef, tabAnims, running, pc>>


\* Options that decide mounting.
MountOptions ==
  {NoOptions, [lazy |-> TRUE], [lazy |-> FALSE], [unmountOnBlur |-> TRUE]}

\* Options that decide the transition spec.
AnimationOptions ==
  {NoOptions, [animation |-> "fade"], [transitionSpec |-> CustomSpec]}

\* Options that decide the activity state, with options that decide mounting.
ActivityOptions ==
  {[animation |-> "none"], [animation |-> "fade", lazy |-> FALSE],
   [animation |-> "shift", unmountOnBlur |-> TRUE]}

\* Options that decide the place of the tab bar.
TabBarOptions == {NoOptions} \cup [tabBarPosition : {"bottom", "top", "left", "right"}]

\* The specifications share the actions and differ in the options the
\* descriptors take: Spec varies the options that pick the transition spec,
\* SpecMount those that decide mounting (with preloading), SpecTabBar the
\* place of the tab bar (with its measured height), SpecActivity the
\* animation together with lazy and unmountOnBlur.

Init == InitWith(AnimationOptions, {49})

Next ==
  \/ \E index \in Indices : Navigate(index)
  \/ \E key \in RouteKeys : \E options \in AnimationOptions : SetOptions(key, options)
  \/ RenderView
  \/ Effect
  \/ \E key \in RouteKeys : Tick(key)

Spec == Init /\ [][Next]_vars

InitMount == InitWith(MountOptions, {49})

NextMount ==
  \/ \E index \in Indices : Navigate(index)
  \/ \E key \in RouteKeys : Preload(key)
  \/ \E key \in RouteKeys : Unpreload(key)
  \/ \E key \in RouteKeys : \E options \in MountOptions : SetOptions(key, options)
  \/ RenderView
  \/ Effect

SpecMount == InitMount /\ [][NextMount]_vars

InitTabBar == InitWith(TabBarOptions, TabBarHeights)

NextTabBar ==
  \/ \E index \in Indices : Navigate(index)
  \/ \E key \in RouteKeys : \E options \in TabBarOptions : SetOptions(key, options)
  \/ \E height \in TabBarHeights : SetTabBarHeight(height)
  \/ RenderView
  \/ Effect

SpecTabBar == InitTabBar /\ [][NextTabBar]_vars

InitActivity == InitWith(ActivityOptions, {49})

NextActivity ==
  \/ \E index \in Indices : Navigate(index)
  \/ \E key \in RouteKeys : \E options \in ActivityOptions : SetOptions(key, options)
  \/ RenderView
  \/ Effect
  \/ \E key \in RouteKeys : Tick(key)

SpecActivity == InitActivity /\ [][NextActivity]_vars

(***************************************************************************)
(* Properties.                                                             *)
(***************************************************************************)

KeyAt(index) == RouteAt(index).key

OptionsAt(index) == descriptors[KeyAt(index)].options

Mounted(index) == RenderScreen(index) # Null

\* C1: in every render a route that is not focused, is lazy (the default)
\* and has no unmountOnBlur is rendered if and only if its key is in loaded
\* or in state.preloadedRouteKeys.
C1_LazyLoading ==
  \A index \in Indices :
    (/\ index # state.index
     /\ Get(OptionsAt(index), "lazy", TRUE)
     /\ ~Get(OptionsAt(index), "unmountOnBlur", FALSE))
    => (Mounted(index) <=>
          (KeyAt(index) \in loaded \/ KeyAt(index) \in state.preloadedRouteKeys))

\* A preloaded lazy route that was never focused is mounted while another
\* lazy route, neither focused before nor preloaded, is not.
C1_Witness ==
  \E i, j \in Indices :
    /\ i # state.index /\ j # state.index /\ i # j
    /\ Get(OptionsAt(i), "lazy", TRUE) /\ ~Has(OptionsAt(i), "unmountOnBlur")
    /\ Get(OptionsAt(j), "lazy", TRUE) /\ ~Has(OptionsAt(j), "unmountOnBlur")
    /\ KeyAt(i) \notin loaded /\ KeyAt(i) \in state.preloadedRouteKeys
    /\ Mounted(i)
    /\ ~Mounted(j)

\* C2: loaded only grows, it contains the focused key once the render has
\* settled, and a loaded screen without unmountOnBlur is mounted in every
\* render, so that a screen mounted by being focused is never unmounted.
C2_MountOnce ==
  /\ [][loaded \subseteq loaded']_vars
  /\ [](pc # "render" => focusedRouteKey \in loaded)
  /\ [](\A index \in Indices :
          (KeyAt(index) \in loaded /\ ~Get(OptionsAt(index), "unmountOnBlur", FALSE))
          => Mounted(index))

\* After tab switches a screen that was focused earlier is still mounted
\* though it is neither focused nor preloaded.
C2_Witness ==
  /\ pc = "idle"
  /\ \E index \in Indices :
       /\ index # state.index
       /\ KeyAt(index) \in loaded
       /\ KeyAt(index) \notin state.preloadedRouteKeys
       /\ Get(OptionsAt(index), "lazy", TRUE)
       /\ Mounted(index)

\* C3 as stated: the focused route is always rendered, with ON_TOP; it is the
\* only screen with ON_TOP, every other rendered screen is INACTIVE or
\* TRANSITIONING_OR_BELOW_TOP.
C3_Original ==
  \A index \in Indices :
    LET screen == RenderScreen(index)
    IN  IF index = state.index
        THEN screen # Null /\ screen.active = Act(STATE_ON_TOP)
        ELSE screen # Null =>
               screen.active \in
                 {Act(STATE_INACTIVE), Act(STATE_TRANSITIONING_OR_BELOW_TOP)}

\* C3 amended: the focused route is always rendered, with ON_TOP; every other
\* rendered screen has an activity state from INACTIVE to
\* TRANSITIONING_OR_BELOW_TOP inclusive, which is one of the two except while
\* the route's progress is strictly between 1 - EPSILON and 1.
C3_ActivityStates ==
  \A index \in Indices :
    LET screen == RenderScreen(index)
        progress == tabAnims[KeyAt(index)]
    IN  IF index = state.index
        THEN screen # Null /\ screen.active = Act(STATE_ON_TOP)
        ELSE screen # Null =>
               /\ screen.active >= Act(STATE_INACTIVE)
               /\ screen.active <= Act(STATE_TRANSITIONING_OR_BELOW_TOP)
               /\ screen.active \notin
                    {Act(STATE_INACTIVE), Act(STATE_TRANSITIONING_OR_BELOW_TOP)}
                  => (progress > One - EPSILON /\ progress < One)

\* The focused route has unmountOnBlur, a screen before it rests at -1 and a
\* screen after it is inside the last EPSILON of its way to 1.
C3_Witness ==
  /\ Get(OptionsAt(state.index), "unmountOnBlur", FALSE)
  /\ \E i, j \in Indices :
       /\ i < state.index /\ Mounted(i) /\ hasAnimation(OptionsAt(i))
       /\ tabAnims[KeyAt(i)] = -One
       /\ j > state.index /\ Mounted(j) /\ hasAnimation(OptionsAt(j))
       /\ tabAnims[KeyAt(j)] = One - 1

\* The effect has just run: the step from pc = "effect" to pc = "idle".
EffectRuns == pc = "effect" /\ pc' = "idle"

\* C4: each run of the effect drives the route at state.index to 0, every
\* route after it to 1 and every route before it to -1; when the animations
\* have completed exactly the focused route has progress 0.
C4_AnimateToIndex ==
  /\ [][EffectRuns =>
          \A index \in Indices :
            LET target == IF index = state.index THEN 0
                          ELSE IF index > state.index THEN One ELSE -One
            IN  IF KeyAt(index) \in DOMAIN running'
                THEN running'[KeyAt(index)].toValue = target
                ELSE tabAnims'[KeyAt(index)] = target]_vars
  /\ []((pc = "idle" /\ DOMAIN running = {}) =>
          \A index \in Indices :
            /\ tabAnims[KeyAt(index)] = 0 <=> index = state.index
            /\ index > state.index => tabAnims[KeyAt(index)] = One
            /\ index < state.index => tabAnims[KeyAt(index)] = -One)

\* After a tab switch all animations have completed, with a route on either
\* side of the focused one.
C4_Witness ==
  /\ pc = "idle"
  /\ DOMAIN running = {}
  /\ Cardinality(loaded) >= 2
  /\ \E i, j \in Indices : i < state.index /\ state.index < j
  /\ \E index \in Indices : index # state.index /\ hasAnimation(OptionsAt(index))
                            /\ Get(OptionsAt(index), "animation", "none") = "fade"
                            /\ KeyAt(index) \in loaded

TabBarIndex == CHOOSE n \in DOMAIN RenderChildren : RenderChildren[n] = "BottomTabBar"

ContainerIndex == CHOOSE n \in DOMAIN RenderChildren : RenderChildren[n] = "MaybeScreenContainer"

\* C5: the tab bar is rendered exactly once, before the screen container if
\* and only if the focused route's tabBarPosition is 'top'; the height given
\* to every screen is tabBarHeight for 'bottom' (the default) and 0 otherwise.
C5_TabBar ==
  LET position == Get(OptionsAt(state.index), "tabBarPosition", "bottom")
  IN  /\ Cardinality({n \in DOMAIN RenderChildren : RenderChildren[n] = "BottomTabBar"}) = 1
      /\ Cardinality({n \in DOMAIN RenderChildren :
                        RenderChildren[n] = "MaybeScreenContainer"}) = 1
      /\ position = "top" <=> TabBarIndex < ContainerIndex
      /\ \A index \in Indices :
           Mounted(index) =>
             RenderScreen(index).tabBarHeight =
               IF position = "bottom" THEN tabBarHeight ELSE 0

\* The focused route puts the tab bar on the left, another route that is
\* mounted asks for 'top', and the tab bar has been measured again.
C5_Witness ==
  /\ Get(OptionsAt(state.index), "tabBarPosition", "bottom") = "left"
  /\ tabBarHeight = 83
  /\ \E index \in Indices :
       /\ index # state.index /\ Mounted(index)
       /\ Get(OptionsAt(index), "tabBarPosition", "bottom") = "top"

\* C6 as stated: a rendered route that is not focused and has animation
\* enabled has activity state TRANSITIONING_OR_BELOW_TOP while its progress
\* is moving and INACTIVE once its progress has reached the target that
\* animateToIndex drives it to.
C6_DetachedAfterTransition ==
  \A index \in Indices :
    (/\ pc = "idle"
     /\ index # state.index
     /\ Mounted(index)
     /\ hasAnimation(OptionsAt(index)))
    => /\ (KeyAt(index) \in DOMAIN running /\ tabAnims[KeyAt(index)] # toValue(index))
            => RenderScreen(index).active = Act(STATE_TRANSITIONING_OR_BELOW_TOP)
       /\ (KeyAt(index) \notin DOMAIN running /\ tabAnims[KeyAt(index)] = toValue(index))
            => RenderScreen(index).active = Act(STATE_INACTIVE)

\* The transitionSpec of the options, or that of the preset of the animation.
OwnSpec(options) ==
  IF Has(options, "transitionSpec") THEN options.transitionSpec
  ELSE IF Has(options, "animation")
       THEN NAMED_TRANSITIONS_PRESETS[options.animation].transitionSpec
       ELSE NoneSpec

\* C7: in a run of the effect a route that is neither the focused one nor
\* the one focused at the previous run is moved with the zero-duration spec
\* (its value is at the target at once), the two others are moved with their
\* own spec; the run sets previousRouteKeyRef to the focused key.
C7_UninvolvedNotAnimated ==
  [][EffectRuns =>
       /\ previousRouteKeyRef' = focusedRouteKey
       /\ \A index \in Indices :
            LET key == KeyAt(index)
                involved == key = previousRouteKeyRef \/ key = focusedRouteKey
                spec == IF involved THEN OwnSpec(OptionsAt(index)) ELSE NoneSpec
            IN  IF spec = NoneSpec
                THEN key \notin DOMAIN running' /\ tabAnims'[key] = toValue(index)
                ELSE key \in DOMAIN running' /\ running'[key].spec = spec]_vars

\* After a tab switch the previous and the new route are both being animated,
\* one with a preset and one with its own transitionSpec, and a third route
\* with an animation of its own is not.
C7_Witness ==
  /\ pc = "idle"
  /\ \E a, b, c \in Indices :
       /\ a = state.index /\ b # a /\ c # a /\ c # b
       /\ KeyAt(a) \in DOMAIN running /\ KeyAt(b) \in DOMAIN running
       /\ {running[KeyAt(a)].spec, running[KeyAt(b)].spec} = {FadeSpec, CustomSpec}
       /\ KeyAt(c) \notin DOMAIN running
       /\ OwnSpec(OptionsAt(c)) # NoneSpec

\* C8 as stated: a route whose options set neither animation nor
\* transitionSpec is treated like animation 'none': hasAnimation is false for
\* it, its screen is INACTIVE when not focused and has no scene style, and
\* hasTwoStates is true when every route has such options.
C8_DefaultIsNoAnimation ==
  LET Default(index) == ~Has(OptionsAt(index), "animation")
                        /\ ~Has(OptionsAt(index), "transitionSpec")
  IN  /\ \A index \in Indices :
           Default(index) =>
             /\ ~hasAnimation(OptionsAt(index))
             /\ (index # state.index /\ Mounted(index)) =>
                  /\ RenderScreen(index).active = Act(STATE_INACTIVE)
                  /\ RenderScreen(index).sceneStyle = "none"
      /\ (\A index \in Indices : Default(index)) => hasTwoStates

\* C9: hasTwoStates is true exactly when hasAnimation is false for every
\* route, and then every rendered screen is ON_TOP or INACTIVE.
C9_TwoStates ==
  /\ hasTwoStates <=> \A index \in Indices : ~hasAnimation(OptionsAt(index))
  /\ hasTwoStates =>
       \A index \in Indices :
         Mounted(index) =>
           RenderScreen(index).active \in {Act(STATE_ON_TOP), Act(STATE_INACTIVE)}

\* No route has an animation, and a mounted screen that is not focused has a
\* progress at which the interpolation would not give INACTIVE.
C9_Witness ==
  /\ hasTwoStates
  /\ \E index \in Indices :
       /\ index # state.index
       /\ Mounted(index)
       /\ tabAnims[KeyAt(index)] < One - EPSILON

====
